---- MODULE Spec2Model ----
(***************************************************************************)
(* Novel to Video AI (src/app.py): the text pipeline of NovelToVideoAI     *)
(* (process_text, extract_keywords, search_images with its placeholder     *)
(* fallback), the generate_video run that drives it scene by scene, and    *)
(* generate_script.                                                        *)
(*                                                                         *)
(* Text is a sequence of one-character strings, so that splitting,         *)
(* trimming, lower-casing and tokenising are computed character by         *)
(* character as the code's re / str calls compute them.                    *)
(***************************************************************************)
EXTENDS Integers, Sequences, FiniteSets, TLC

VARIABLES
    pc,            \* position of the run being modelled
    text,          \* the input string of process_text / extract_keywords / generate_video
    segments,      \* what process_text returned
    keywords,      \* what extract_keywords returned
    apiKey,        \* NovelToVideoAI.pexels_api_key
    query,         \* search_images: its query argument
    per_page,      \* search_images: per_page; generate_video: images_per_scene
    response,      \* what the remote service answered to the last request
    images,        \* what search_images returned
    raised,        \* whether an exception left search_images
    requests,      \* the requests issued to the remote service, in order
    duration,      \* generate_video: duration per scene
    video_data,    \* generate_video / generate_script: the SceneResult list
    script         \* what generate_script returned

vars ==
    <<pc, text, segments, keywords, apiKey, query, per_page, response, images,
      raised, requests, duration, video_data, script>>

(***************************************************************************)
(* Bounds of the model.                                                    *)
(***************************************************************************)
\* number of text pieces an input of process_text is put together from
MaxChunks ==
    5
\* number of word pieces an input of extract_keywords is put together from
MaxWords ==
    5
\* number of photos a payload of the remote service holds, for search_images
MaxPhotos ==
    4
\* number of photos a payload holds during a run of generate_video
MaxRunPhotos ==
    1
\* number of sentences an input of generate_video is put together from
MaxSentences ==
    2
\* number of scenes handed to generate_script
MaxScenes ==
    3

(***************************************************************************)
(* Characters.                                                             *)
(***************************************************************************)
LowerLetters ==
    {"a","b","c","d","e","f","g","h","i","j","k","l","m",
     "n","o","p","q","r","s","t","u","v","w","x","y","z"}

UpperLetters ==
    {"A","B","C","D","E","F","G","H","I","J","K","L","M",
     "N","O","P","Q","R","S","T","U","V","W","X","Y","Z"}

Digits ==
    {"0","1","2","3","4","5","6","7","8","9"}

\* the characters str.strip() removes
Whitespace ==
    {" ", "\t", "\n", "\r", "\f"}

\* the character class [.!?] of process_text's pattern
Terminators ==
    {".", "!", "?"}

\* the character class \w
WordChars ==
    LowerLetters \cup UpperLetters \cup Digits \cup {"_"}

IsWordChar(c) ==
    c \in WordChars

LowerOf ==
    ("A" :> "a") @@ ("B" :> "b") @@ ("C" :> "c") @@ ("D" :> "d") @@
    ("E" :> "e") @@ ("F" :> "f") @@ ("G" :> "g") @@ ("H" :> "h") @@
    ("I" :> "i") @@ ("J" :> "j") @@ ("K" :> "k") @@ ("L" :> "l") @@
    ("M" :> "m") @@ ("N" :> "n") @@ ("O" :> "o") @@ ("P" :> "p") @@
    ("Q" :> "q") @@ ("R" :> "r") @@ ("S" :> "s") @@ ("T" :> "t") @@
    ("U" :> "u") @@ ("V" :> "v") @@ ("W" :> "w") @@ ("X" :> "x") @@
    ("Y" :> "y") @@ ("Z" :> "z")

\* str.lower()
Lower(s) ==
    [k \in 1..Len(s) |-> IF s[k] \in UpperLetters THEN LowerOf[s[k]] ELSE s[k]]

\* str.strip(): leading whitespace, then trailing whitespace
RECURSIVE LStrip(_)
LStrip(s) ==
    IF s # <<>> /\ s[1] \in Whitespace THEN LStrip(Tail(s)) ELSE s

RECURSIVE RStrip(_)
RStrip(s) ==
    IF s # <<>> /\ s[Len(s)] \in Whitespace
    THEN RStrip(SubSeq(s, 1, Len(s) - 1))
    ELSE s

Strip(s) ==
    RStrip(LStrip(s))

(***************************************************************************)
(* extract_keywords.                                                       *)
(***************************************************************************)
stop_words ==
    { <<"t","h","e">>, <<"a">>, <<"a","n">>, <<"a","n","d">>, <<"o","r">>,
      <<"b","u","t">>, <<"i","n">>, <<"o","n">>, <<"a","t">>, <<"t","o">>,
      <<"f","o","r">>, <<"o","f">>, <<"w","i","t","h">>, <<"b","y">>,
      <<"i","s">>, <<"w","a","s">>, <<"a","r","e">>, <<"w","e","r","e">>,
      <<"b","e">>, <<"b","e","e","n">>, <<"b","e","i","n","g">>,
      <<"h","a","v","e">>, <<"h","a","s">>, <<"h","a","d">>, <<"d","o">>,
      <<"d","o","e","s">>, <<"d","i","d">>, <<"w","i","l","l">>,
      <<"w","o","u","l","d">>, <<"c","o","u","l","d">>,
      <<"s","h","o","u","l","d">> }

\* a keyword is longer than this
MinKeywordLen ==
    2

\* the number of keywords kept
TopKeywords ==
    3

\* the first position from k on whose character is in chars (resp. is not),
\* Len(s) + 1 when there is none: where the next match of a character class
\* starts, and where it ends
FirstIn(s, k, chars) ==
    CHOOSE j \in k..(Len(s) + 1) :
        /\ (j = Len(s) + 1 \/ s[j] \in chars)
        /\ \A i \in k..(j - 1) : s[i] \notin chars

FirstNotIn(s, k, chars) ==
    CHOOSE j \in k..(Len(s) + 1) :
        /\ (j = Len(s) + 1 \/ s[j] \notin chars)
        /\ \A i \in k..(j - 1) : s[i] \in chars

\* re.findall(r'\b\w+\b', s): the matches from position pos on, left to right;
\* a match is a maximal run of word characters
RECURSIVE FindWordsFrom(_, _, _)
FindWordsFrom(s, pos, acc) ==
    LET start == FirstIn(s, pos, WordChars)
    IN  IF start > Len(s)
        THEN acc
        ELSE LET end == FirstNotIn(s, start, WordChars)
             IN  FindWordsFrom(s, end, Append(acc, SubSeq(s, start, end - 1)))

FindWords(s) ==
    FindWordsFrom(s, 1, <<>>)

\* the list comprehension of extract_keywords
IsKeyword(word) ==
    word \notin stop_words /\ Len(word) > MinKeywordLen

\* ' '.join(ws)
RECURSIVE Join(_)
Join(ws) ==
    IF ws = <<>> THEN <<>>
    ELSE IF Len(ws) = 1 THEN ws[1]
    ELSE ws[1] \o <<" ">> \o Join(Tail(ws))

\* ws[:n]
Slice(ws, n) ==
    SubSeq(ws, 1, IF n < Len(ws) THEN n ELSE Len(ws))

\* extract_keywords with the stop words filtered before lower-casing
extract_keywords_filter_first(s) ==
    LET words == FindWords(s)
        kws   == SelectSeq(words, IsKeyword)
    IN  Lower(Join(Slice(kws, TopKeywords)))

extract_keywords(s) ==
    LET words == FindWords(Lower(s))
        kws   == SelectSeq(words, IsKeyword)
    IN  Join(Slice(kws, TopKeywords))

(***************************************************************************)
(* process_text.                                                           *)
(***************************************************************************)
\* a scene is longer than this
MinSceneLen ==
    10

\* re.split(r'[.!?]+', s): from position pos on, the text before each match
\* of a run of terminators, then the text after the last match; the empty
\* fragments are kept
RECURSIVE ReSplitFrom(_, _, _)
ReSplitFrom(s, pos, acc) ==
    LET start == FirstIn(s, pos, Terminators)
    IN  IF start > Len(s)
        THEN Append(acc, SubSeq(s, pos, Len(s)))
        ELSE LET end == FirstNotIn(s, start, Terminators)
             IN  ReSplitFrom(s, end, Append(acc, SubSeq(s, pos, start - 1)))

ReSplit(s) ==
    ReSplitFrom(s, 1, <<>>)

\* the loop of process_text over the sentences, from the k-th on
RECURSIVE SegmentsFrom(_, _, _)
SegmentsFrom(sentences, k, acc) ==
    IF k > Len(sentences)
    THEN acc
    ELSE LET sentence == Strip(sentences[k])
         IN  IF Len(sentence) > MinSceneLen
             THEN SegmentsFrom(sentences, k + 1,
                      Append(acc, [text |-> sentence,
                                   keywords |-> extract_keywords(sentence)]))
             ELSE SegmentsFrom(sentences, k + 1, acc)

\* process_text keeping the fragments of length MinSceneLen too
process_text_keep_short(s) ==
    LET stripped == [k \in 1..Len(ReSplit(s)) |-> Strip(ReSplit(s)[k])]
        kept     == SelectSeq(stripped, LAMBDA f : Len(f) >= MinSceneLen)
    IN  [k \in 1..Len(kept) |->
            [text |-> kept[k], keywords |-> extract_keywords(kept[k])]]

process_text(s) ==
    SegmentsFrom(ReSplit(s), 1, <<>>)

(***************************************************************************)
(* Inputs: texts put together from a few pieces.                           *)
(***************************************************************************)
RECURSIVE Flatten(_)
Flatten(pieces) ==
    IF pieces = <<>> THEN <<>> ELSE pieces[1] \o Flatten(Tail(pieces))

PieceSeqs(pieces, n) ==
    UNION {[1..k -> pieces] : k \in 0..n}

\* the sentence "The dragon" has exactly 10 characters, "A brave cat" 11
TextPieces ==
    { <<"T","h","e"," ","d","r","a","g","o","n",".">>,
      <<"A"," ","b","r","a","v","e"," ","c","a","t">>,
      <<" ">>, <<".">>, <<"!">>, <<"?","\n">> }

SegTexts ==
    {Flatten(ps) : ps \in PieceSeqs(TextPieces, MaxChunks)}

WordPieces ==
    { <<"T","h","e"," ">>, <<"i","s"," ">>, <<"C","a","t"," ">>,
      <<"r","_","1",",">>, <<"g","o","-">>, <<"a","b">> }

Sentences ==
    {Flatten(ps) : ps \in PieceSeqs(WordPieces, MaxWords)}

(***************************************************************************)
(* search_images and get_placeholder_images.                               *)
(***************************************************************************)
\* the default of st.secrets.get("PEXELS_API_KEY", ...)
Sentinel ==
    "YOUR_PEXELS_API_KEY_HERE"

\* PEXELS_API_KEY: the secret when there is one (possibly empty), the default
\* when there is none
SecretKeys ==
    {Sentinel, "", "secret-key"}

\* the sidebar's text input, empty by default
SidebarKeys ==
    {"", "user-key"}

\* __init__, then main(): a non-empty sidebar key replaces the key
Configure(secret, sidebar) ==
    IF sidebar # "" THEN sidebar ELSE secret

ApiKeys ==
    {Configure(secret, sidebar) : secret \in SecretKeys, sidebar \in SidebarKeys}

\* the choices of the "Images per scene" select box
ImagesPerScene ==
    {1, 2, 3}

DigitChars ==
    <<"0","1","2","3","4","5","6","7","8","9">>

\* an integer n >= 0 as an f-string prints it
RECURSIVE Decimal(_)
Decimal(n) ==
    IF n < 10
    THEN <<DigitChars[n + 1]>>
    ELSE Decimal(n \div 10) \o <<DigitChars[(n % 10) + 1]>>

placeholder_urls ==
    << "https://via.placeholder.com/800x600/4A90E2/FFFFFF?text=Scene+1",
       "https://via.placeholder.com/800x600/50C878/FFFFFF?text=Scene+2",
       "https://via.placeholder.com/800x600/FF6B6B/FFFFFF?text=Scene+3" >>

\* i is enumerate()'s index plus one
get_placeholder_images(count) ==
    LET urls == Slice(placeholder_urls, count)
    IN  [i \in 1..Len(urls) |->
            [url |-> urls[i],
             alt |-> <<"P","l","a","c","e","h","o","l","d","e","r"," ">> \o Decimal(i)]]

\* the first test of search_images, without the comparison to the default
NoCredential_falsy_only(key) ==
    key = ""

\* not self.pexels_api_key or self.pexels_api_key == "YOUR_PEXELS_API_KEY_HERE"
NoCredential(key) ==
    key = "" \/ key = Sentinel

\* response.status_code of a successful search
HTTP_OK ==
    200

\* timeout=10 of requests.get
RequestTimeout ==
    10

\* the request search_images sends
Request(key, q, n) ==
    [url |-> "https://api.pexels.com/v1/search", authorization |-> key,
     query |-> q, per_page |-> n, orientation |-> "landscape",
     timeout |-> RequestTimeout]

\* What the remote service can answer.  kind "exception": requests.get raised
\* (transport error, timeout).  body: "notjson" (response.json() raises),
\* "nonobject" (JSON that is no object), "nophotos" (an object without
\* 'photos'), "nullphotos" (an object whose 'photos' is null), "photos" (an
\* object whose 'photos' is the list `photos`).
\* A photo: src "ok" (photo['src']['medium'] is `medium`), "missing" (no 'src'),
\* "nomedium" ('src' without 'medium'); hasAlt: whether it has an 'alt'.
PhotoEntries ==
    { [src |-> "ok", medium |-> "https://images.pexels.com/1/medium.jpg",
       hasAlt |-> FALSE, alt |-> <<>>],
      [src |-> "ok", medium |-> "https://images.pexels.com/2/medium.jpg",
       hasAlt |-> TRUE, alt |-> <<"s","e","a">>],
      [src |-> "missing", medium |-> "", hasAlt |-> TRUE, alt |-> <<"s","e","a">>],
      [src |-> "nomedium", medium |-> "", hasAlt |-> FALSE, alt |-> <<>>] }

ServiceResponses(maxPhotos) ==
    {[kind |-> "exception", status |-> 0, body |-> "none", photos |-> <<>>]}
    \cup {[kind |-> "http", status |-> st, body |-> "none", photos |-> <<>>] :
             st \in {404, 500}}
    \cup {[kind |-> "http", status |-> HTTP_OK, body |-> b, photos |-> <<>>] :
             b \in {"notjson", "nonobject", "nophotos", "nullphotos"}}
    \cup {[kind |-> "http", status |-> HTTP_OK, body |-> "photos", photos |-> ps] :
             ps \in PieceSeqs(PhotoEntries, maxPhotos)}

\* the outcome of the try block: an exception raised in it, or the value returned
Raise(exc) ==
    [exc |-> exc, images |-> <<>>]

Return(imgs) ==
    [exc |-> "none", images |-> imgs]

\* the for loop over data.get('photos', []), from the k-th photo on
RECURSIVE MapPhotosFrom(_, _, _, _)
MapPhotosFrom(photos, k, q, acc) ==
    IF k > Len(photos)
    THEN Return(acc)
    ELSE IF photos[k].src # "ok"
         THEN Raise("KeyError")
         ELSE MapPhotosFrom(photos, k + 1, q,
                  Append(acc, [url |-> photos[k].medium,
                               alt |-> IF photos[k].hasAlt THEN photos[k].alt ELSE q]))

\* the loop taking the caption of every photo, with no default
MapPhotos_no_default(photos, q) ==
    IF \E k \in 1..Len(photos) : photos[k].src # "ok"
    THEN Raise("KeyError")
    ELSE Return([k \in 1..Len(photos) |->
                    [url |-> photos[k].medium, alt |-> photos[k].alt]])

MapPhotos(photos, q) ==
    MapPhotosFrom(photos, 1, q, <<>>)

\* the body of the try block
TryBody(resp, q, n) ==
    IF resp.kind = "exception"
    THEN Raise("RequestException")
    ELSE IF resp.status = HTTP_OK
         THEN CASE resp.body = "notjson"    -> Raise("JSONDecodeError")
                [] resp.body = "nonobject"  -> Raise("AttributeError")
                [] resp.body = "nullphotos" -> Raise("TypeError")
                [] resp.body = "nophotos"   -> MapPhotos(<<>>, q)
                [] OTHER                    -> MapPhotos(resp.photos, q)
         ELSE Return(get_placeholder_images(n))

\* a handler catching the errors of the requests library only
Caught_requests_only(exc) ==
    exc = "RequestException"

\* except Exception
Caught(exc) ==
    exc \in {"RequestException", "JSONDecodeError", "AttributeError",
             "TypeError", "KeyError"}

\* search_images sending the request a second time when the first attempt failed
search_images_retry(key, q, n, resp) ==
    IF NoCredential(key)
    THEN [images |-> get_placeholder_images(n), sent |-> <<>>, raised |-> FALSE]
    ELSE LET out == TryBody(resp, q, n)
         IN  IF out.exc = "none" /\ resp.status = HTTP_OK
             THEN [images |-> out.images, sent |-> <<Request(key, q, n)>>,
                   raised |-> FALSE]
             ELSE [images |-> get_placeholder_images(n),
                   sent |-> <<Request(key, q, n), Request(key, q, n)>>,
                   raised |-> FALSE]

\* resp is the service's answer to the request, if one is sent.
\* sent: the requests issued; raised: an exception left the call.
search_images(key, q, n, resp) ==
    IF NoCredential(key)
    THEN [images |-> get_placeholder_images(n), sent |-> <<>>, raised |-> FALSE]
    ELSE LET out == TryBody(resp, q, n)
         IN  IF out.exc = "none"
             THEN [images |-> out.images, sent |-> <<Request(key, q, n)>>,
                   raised |-> FALSE]
             ELSE IF Caught(out.exc)
                  THEN [images |-> get_placeholder_images(n),
                        sent |-> <<Request(key, q, n)>>, raised |-> FALSE]
                  ELSE [images |-> <<>>, sent |-> <<Request(key, q, n)>>,
                        raised |-> TRUE]

(***************************************************************************)
(* Values of the variables a run does not use.                             *)
(***************************************************************************)
NoResponse ==
    [kind |-> "none", status |-> 0, body |-> "none", photos |-> <<>>]

Unused(vs) ==
    /\ ("text" \in vs => text = <<>>)
    /\ ("segments" \in vs => segments = <<>>)
    /\ ("keywords" \in vs => keywords = <<>>)
    /\ ("apiKey" \in vs => apiKey = "")
    /\ ("query" \in vs => query = <<>>)
    /\ ("per_page" \in vs => per_page = 0)
    /\ ("response" \in vs => response = NoResponse)
    /\ ("images" \in vs => images = <<>>)
    /\ ("raised" \in vs => raised = FALSE)
    /\ ("requests" \in vs => requests = <<>>)
    /\ ("duration" \in vs => duration = 0)
    /\ ("video_data" \in vs => video_data = <<>>)
    /\ ("script" \in vs => script = <<>>)

(***************************************************************************)
(* process_text on its own.                                                *)
(***************************************************************************)
InitSegmenter ==
    /\ pc = "segmenter_ready"
    /\ text \in SegTexts
    /\ Unused({"segments", "keywords", "apiKey", "query", "per_page", "response",
               "images", "raised", "requests", "duration", "video_data", "script"})

CallProcessText ==
    /\ pc = "segmenter_ready"
    /\ segments' = process_text(text)
    /\ pc' = "segmenter_done"
    /\ UNCHANGED <<text, keywords, apiKey, query, per_page, response, images,
                   raised, requests, duration, video_data, script>>

NextSegmenter ==
    CallProcessText

SpecSegmenter ==
    InitSegmenter /\ [][NextSegmenter]_vars

(***************************************************************************)
(* extract_keywords on its own.                                            *)
(***************************************************************************)
InitKeywords ==
    /\ pc = "keywords_ready"
    /\ text \in Sentences
    /\ Unused({"segments", "keywords", "apiKey", "query", "per_page", "response",
               "images", "raised", "requests", "duration", "video_data", "script"})

CallExtractKeywords ==
    /\ pc = "keywords_ready"
    /\ keywords' = extract_keywords(text)
    /\ pc' = "keywords_done"
    /\ UNCHANGED <<text, segments, apiKey, query, per_page, response, images,
                   raised, requests, duration, video_data, script>>

NextKeywords ==
    CallExtractKeywords

SpecKeywords ==
    InitKeywords /\ [][NextKeywords]_vars

(***************************************************************************)
(* search_images on its own: one call, and the answer of the service.      *)
(***************************************************************************)
Queries ==
    { <<>>, <<"o","c","e","a","n">>, <<"d","r","a","g","o","n">> }

InitResolver ==
    /\ pc = "resolver_ready"
    /\ apiKey \in ApiKeys
    /\ query \in Queries
    /\ per_page \in ImagesPerScene
    /\ response = NoResponse
    /\ Unused({"text", "segments", "keywords", "images", "raised", "requests",
               "duration", "video_data", "script"})

CallSearchImages ==
    /\ pc = "resolver_ready"
    /\ \E resp \in (IF NoCredential(apiKey)
                    THEN {NoResponse}
                    ELSE ServiceResponses(MaxPhotos)) :
           LET r == search_images(apiKey, query, per_page, resp)
           IN  /\ images' = r.images
               /\ raised' = r.raised
               /\ requests' = requests \o r.sent
               /\ response' = IF r.sent = <<>> THEN NoResponse ELSE resp
    /\ pc' = "resolver_done"
    /\ UNCHANGED <<text, segments, keywords, apiKey, query, per_page, duration,
                   video_data, script>>

NextResolver ==
    CallSearchImages

SpecResolver ==
    InitResolver /\ [][NextResolver]_vars

(***************************************************************************)
(* generate_video: one run, scene by scene.                                *)
(***************************************************************************)
\* the "Duration per scene" slider
MinDuration ==
    2

DefaultDuration ==
    4

MaxDuration ==
    10

ExampleText ==
    <<"T","h","e"," ","b","r","a","v","e"," ">>
    \o <<"a","s","t","r","o","n","a","u","t"," ">>
    \o <<"f","o","u","n","d"," ","a"," ","g","l">>
    \o <<"o","w","i","n","g"," ","c","r","y","s">>
    \o <<"t","a","l","."," ","I","t"," ","p","u">>
    \o <<"l","s","e","d"," ","s","o","f","t","l">>
    \o <<"y"," ","i","n"," ","t","h","e"," ","d">>
    \o <<"a","r","k"," ","c","a","v","e",".">>

\* Sentences of the user's text: a scene without keywords, a scene with
\* keywords, and fragments of 10 characters or fewer.
SentencePieces ==
    { <<"t","h","e"," ","t","h","e"," ","t","h","e"," ">>
      \o <<"a","n","d"," ","t","h","e"," ","t","h","e"," ">>
      \o <<"t","h","e","."," ">>,
      <<"A"," ","b","r","a","v","e"," ","c","a","t"," ">>
      \o <<"r","a","n"," ","t","o"," ","t","h","e"," ","o">>
      \o <<"l","d"," ","b","a","r","n","!"," ">>,
      <<"T","h","e"," ","d","r","a","g","o","n","."," ">>
      \o <<"T","h","e"," ","d","r","a","g","o","n","."," ">>
      \o <<"G","o","!"," ">> }

VideoTexts ==
    {ExampleText} \cup {Flatten(ps) : ps \in PieceSeqs(SentencePieces, MaxSentences)}

\* what the remote service can answer during a run
RunResponses ==
    ServiceResponses(MaxRunPhotos)

\* the entry appended to video_data, with the keywords taken from the text
scene_result_text_as_keywords(segment, imgs, d) ==
    [text |-> segment.text, keywords |-> segment.text, images |-> imgs,
     duration |-> d]

\* the entry appended to video_data
scene_result(segment, imgs, d) ==
    [text |-> segment.text, keywords |-> segment.keywords, images |-> imgs,
     duration |-> d]

\* main() asks for at least this many characters
MinTextLen ==
    50

Init ==
    /\ pc = "main"
    /\ text \in VideoTexts
    /\ apiKey \in ApiKeys
    /\ per_page \in ImagesPerScene
    /\ duration \in {MinDuration, DefaultDuration}
    /\ Unused({"segments", "keywords", "query", "response", "images", "raised",
               "requests", "video_data", "script"})

\* main(): the "Generate Video" button, enabled when the text is not blank;
\* generate_video is called for a text of at least MinTextLen characters
ClickGenerate ==
    /\ pc = "main"
    /\ Strip(text) # <<>>
    /\ pc' = IF Len(Strip(text)) < MinTextLen THEN "warned" ELSE "start"
    /\ UNCHANGED <<text, segments, keywords, apiKey, query, per_page, response,
                   images, raised, requests, duration, video_data, script>>

\* Step 1 going on with an empty list of segments
ProcessText_no_check ==
    /\ pc = "start"
    /\ segments' = process_text(text)
    /\ pc' = "images"
    /\ UNCHANGED <<text, keywords, apiKey, query, per_page, response, images,
                   raised, requests, duration, video_data, script>>

\* Step 1: process_text, and the return when there is no segment
ProcessText ==
    /\ pc = "start"
    /\ segments' = process_text(text)
    /\ pc' = IF segments' = <<>> THEN "nothing" ELSE "images"
    /\ UNCHANGED <<text, keywords, apiKey, query, per_page, response, images,
                   raised, requests, duration, video_data, script>>

\* Step 2: one turn of the loop over the segments
SceneImages ==
    /\ pc = "images"
    /\ Len(video_data) < Len(segments)
    /\ LET segment == segments[Len(video_data) + 1]
       IN  \E resp \in (IF NoCredential(apiKey)
                        THEN {NoResponse}
                        ELSE RunResponses) :
               LET r == search_images(apiKey, segment.keywords, per_page, resp)
               IN  /\ requests' = requests \o r.sent
                   /\ IF r.raised
                      THEN /\ pc' = "error"
                           /\ UNCHANGED video_data
                      ELSE /\ pc' = "images"
                           /\ video_data' =
                                  Append(video_data,
                                         scene_result(segment, r.images, duration))
    /\ UNCHANGED <<text, segments, keywords, apiKey, query, per_page, response,
                   images, raised, duration, script>>

\* Step 3: display_video_preview(video_data), once the loop is over
DisplayPreview ==
    /\ pc = "images"
    /\ Len(video_data) = Len(segments)
    /\ pc' = "preview"
    /\ UNCHANGED <<text, segments, keywords, apiKey, query, per_page, response,
                   images, raised, requests, duration, video_data, script>>

\* "Video generation complete!"
Complete ==
    /\ pc = "preview"
    /\ pc' = "complete"
    /\ UNCHANGED <<text, segments, keywords, apiKey, query, per_page, response,
                   images, raised, requests, duration, video_data, script>>

Next ==
    \/ ClickGenerate
    \/ ProcessText
    \/ SceneImages
    \/ DisplayPreview
    \/ Complete

Spec ==
    Init /\ [][Next]_vars

(***************************************************************************)
(* generate_script.                                                        *)
(***************************************************************************)
\* One appended line: its fixed wording (label), the number printed in it
\* (num, in decimal digits) and the text printed in it (value).
Line(label, num, value) ==
    [label |-> label, num |-> num, value |-> value]

\* the lines of one image list, j being enumerate()'s index plus one
ImageLines(imgs) ==
    [j \in 1..Len(imgs) |-> Line("image", Decimal(j), imgs[j].url)]

\* the block of the i-th scene (i is enumerate()'s index plus one)
SceneBlock(i, scene) ==
    << Line("SCENE", Decimal(i), <<>>),
       Line("rule20", <<>>, <<>>),
       Line("Duration", Decimal(scene.duration), <<>>),
       Line("Keywords", <<>>, scene.keywords),
       Line("Narration", <<>>, scene.text),
       Line("Images", <<>>, <<>>) >>
    \o ImageLines(scene.images)
    \o << Line("rule30", <<>>, <<>>) >>

\* the for loop of generate_script from the i-th scene on: the lines appended
\* and the running total_duration
RECURSIVE ScriptLoop(_, _, _, _)
ScriptLoop(data, i, lines, total) ==
    IF i > Len(data)
    THEN [lines |-> lines, total_duration |-> total]
    ELSE ScriptLoop(data, i + 1, lines \o SceneBlock(i, data[i]),
                    total + data[i].duration)

\* generate_script stating the duration of the last scene as the total
generate_script_last_duration(data, now) ==
    LET header == << Line("title", <<>>, <<>>),
                     Line("Generated on", <<>>, now),
                     Line("copyright", <<>>, <<>>),
                     Line("rule50", <<>>, <<>>),
                     Line("COMPLETE VIDEO SCRIPT", <<>>, <<>>),
                     Line("rule50", <<>>, <<>>) >>
        loop   == ScriptLoop(data, 1, <<>>, 0)
    IN  header
        \o loop.lines
        \o << Line("TOTAL VIDEO DURATION",
                   Decimal(IF data = <<>> THEN 0 ELSE data[Len(data)].duration),
                   <<>>),
              Line("TOTAL SCENES", Decimal(Len(data)), <<>>) >>

\* now: what time.strftime returns
generate_script(data, now) ==
    LET header == << Line("title", <<>>, <<>>),
                     Line("Generated on", <<>>, now),
                     Line("copyright", <<>>, <<>>),
                     Line("rule50", <<>>, <<>>),
                     Line("COMPLETE VIDEO SCRIPT", <<>>, <<>>),
                     Line("rule50", <<>>, <<>>) >>
        loop   == ScriptLoop(data, 1, <<>>, 0)
    IN  header
        \o loop.lines
        \o << Line("TOTAL VIDEO DURATION", Decimal(loop.total_duration), <<>>),
              Line("TOTAL SCENES", Decimal(Len(data)), <<>>) >>

\* the SceneResults handed to generate_script
SceneResults ==
    { [text |-> <<"A"," ","b","r","a","v","e"," ","c","a","t">>,
       keywords |-> <<"b","r","a","v","e"," ","c","a","t">>,
       images |-> imgs, duration |-> d] :
          imgs \in {<<>>, get_placeholder_images(1), get_placeholder_images(2)},
          d \in {MinDuration, DefaultDuration, MaxDuration} }

InitScript ==
    /\ pc = "script_ready"
    /\ video_data \in PieceSeqs(SceneResults, MaxScenes)
    /\ Unused({"text", "segments", "keywords", "apiKey", "query", "per_page",
               "response", "images", "raised", "requests", "duration", "script"})

CallGenerateScript ==
    /\ pc = "script_ready"
    /\ \E now \in {"2025-01-01 00:00:00"} :
           script' = generate_script(video_data, now)
    /\ pc' = "script_done"
    /\ UNCHANGED <<text, segments, keywords, apiKey, query, per_page, response,
                   images, raised, requests, duration, video_data>>

NextScript ==
    CallGenerateScript

SpecScript ==
    InitScript /\ [][NextScript]_vars

(***************************************************************************)
(* What the claims are stated with: the maximal runs of a string, said by  *)
(* position and not by a scan.                                             *)
(***************************************************************************)
\* the maximal runs of characters of s satisfying InRun, left to right
Runs(s, InRun(_)) ==
    LET starts   == {i \in 1..Len(s) : InRun(s[i]) /\ (i = 1 \/ ~InRun(s[i - 1]))}
        endOf(i) == CHOOSE j \in i..Len(s) :
                        /\ (j = Len(s) \/ ~InRun(s[j + 1]))
                        /\ \A k \in i..j : InRun(s[k])
        nth(n)   == CHOOSE i \in starts : Cardinality({t \in starts : t < i}) = n - 1
    IN  [n \in 1..Cardinality(starts) |-> SubSeq(s, nth(n), endOf(nth(n)))]

\* s without its leading and trailing whitespace: from its first character
\* that is no whitespace to its last one
Trimmed(s) ==
    IF \A k \in 1..Len(s) : s[k] \in Whitespace
    THEN <<>>
    ELSE SubSeq(s,
                CHOOSE a \in 1..Len(s) :
                    s[a] \notin Whitespace /\ \A k \in 1..(a - 1) : s[k] \in Whitespace,
                CHOOSE b \in 1..Len(s) :
                    s[b] \notin Whitespace /\ \A k \in (b + 1)..Len(s) : s[k] \in Whitespace)

NotTerminator(c) ==
    c \notin Terminators

NotBlank(c) ==
    c # " "

\* the trimmed fragments of s between runs of terminators, left to right
TrimmedFragments(s) ==
    LET frags == Runs(s, NotTerminator)
    IN  [k \in 1..Len(frags) |-> Trimmed(frags[k])]

\* the lower-cased tokens of s that are no stop word and longer than 2
Survivors(s) ==
    SelectSeq(Runs(Lower(s), IsWordChar),
              LAMBDA w : w \notin stop_words /\ Len(w) > 2)

\* C5: process_text returns the trimmed fragments between runs of '.', '!'
\* and '?' that are longer than 10 characters, all of them and in their
\* left-to-right order; no returned scene has 10 characters or fewer.
C5_SegmenterKeepsLongFragmentsInOrder ==
    pc = "segmenter_done" =>
        /\ [k \in 1..Len(segments) |-> segments[k].text]
               = SelectSeq(TrimmedFragments(text), LAMBDA f : Len(f) > 10)
        /\ \A k \in 1..Len(segments) :
               /\ Len(segments[k].text) > 10
               /\ Trimmed(segments[k].text) = segments[k].text

\* two different scenes returned in order, and a fragment of exactly 10
\* characters dropped
C5_Witness ==
    /\ pc = "segmenter_done"
    /\ Len(segments) = 2
    /\ segments[1].text # segments[2].text
    /\ \E k \in 1..Len(TrimmedFragments(text)) : Len(TrimmedFragments(text)[k]) = 10

\* C6: extract_keywords returns the first 3 (or all, if fewer) lower-cased
\* tokens that are no stop word and longer than 2 characters, in their order,
\* joined by single spaces: at most 3 tokens, none a stop word, none of length
\* 2 or less, all lower-case, and the empty string when none survives.
C6_KeywordsAreFirstThreeSurvivors ==
    pc = "keywords_done" =>
        LET out  == Runs(keywords, NotBlank)
            surv == Survivors(text)
            n    == IF Len(surv) < 3 THEN Len(surv) ELSE 3
        IN  /\ out = SubSeq(surv, 1, n)
            /\ Len(out) <= 3
            /\ \A k \in 1..Len(out) :
                   /\ out[k] \notin stop_words
                   /\ Len(out[k]) > 2
                   /\ \A j \in 1..Len(out[k]) : out[k][j] \notin UpperLetters
            \* single spaces between the tokens and none around them
            /\ \A k \in 1..Len(keywords) :
                   keywords[k] = " " =>
                       /\ 1 < k /\ k < Len(keywords)
                       /\ keywords[k + 1] # " "
            /\ (surv = <<>> => keywords = <<>>)

\* more than 3 tokens survive, and a capitalised stop word was dropped
C6_Witness ==
    /\ pc = "keywords_done"
    /\ Len(Survivors(text)) > 3
    /\ \E w \in stop_words : \E k \in 1..Len(Runs(Lower(text), IsWordChar)) :
           /\ Runs(Lower(text), IsWordChar)[k] = w
           /\ Runs(text, IsWordChar)[k] # w
    /\ keywords # <<>>

(***************************************************************************)
(* search_images (SpecResolver).                                           *)
(***************************************************************************)
\* the fixed list of three placeholder descriptors, written out
ThreePlaceholders ==
    << [url |-> "https://via.placeholder.com/800x600/4A90E2/FFFFFF?text=Scene+1",
        alt |-> <<"P","l","a","c","e","h","o","l","d","e","r"," ","1">>],
       [url |-> "https://via.placeholder.com/800x600/50C878/FFFFFF?text=Scene+2",
        alt |-> <<"P","l","a","c","e","h","o","l","d","e","r"," ","2">>],
       [url |-> "https://via.placeholder.com/800x600/FF6B6B/FFFFFF?text=Scene+3",
        alt |-> <<"P","l","a","c","e","h","o","l","d","e","r"," ","3">>] >>

\* a credential is configured: neither empty nor the default
Configured ==
    apiKey # "" /\ apiKey # "YOUR_PEXELS_API_KEY_HERE"

\* the payload is a JSON object holding a list of photos, each with a
\* medium-resolution URL
WellFormedPayload ==
    /\ response.kind = "http"
    /\ response.body = "photos"
    /\ \A k \in 1..Len(response.photos) : response.photos[k].src = "ok"

\* the remote call failed by its status, by an exception or by its JSON
FailedBeforePayload ==
    \/ response.kind = "exception"
    \/ response.kind = "http" /\ response.status # 200
    \/ response.kind = "http" /\ response.status = 200 /\ response.body = "notjson"

\* mapping the payload raises: no JSON object, a null photo list, a photo
\* without 'src' or without a medium-resolution URL
PayloadRaises ==
    /\ response.kind = "http"
    /\ response.status = 200
    /\ \/ response.body \in {"nonobject", "nullphotos"}
       \/ /\ response.body = "photos"
          /\ \E k \in 1..Len(response.photos) : response.photos[k].src # "ok"

C2_AtMostRequestedCount ==
    pc = "resolver_done" =>
        LET primary   == Configured /\ response.kind = "http"
                             /\ response.status = 200
                             /\ response.body \in {"photos", "nophotos"}
                             /\ \A k \in 1..Len(response.photos) :
                                    response.photos[k].src = "ok"
            available == IF primary THEN Len(response.photos) ELSE 3
        IN  /\ Len(images) = (IF per_page < available THEN per_page ELSE available)
            /\ Len(images) <= per_page
            /\ (images = <<>> => (primary /\ response.photos = <<>>))

\* C3: with no credential (empty, or the default left by a missing secret),
\* search_images(query, N) returns the first N of the three placeholder
\* descriptors, in order, for every query: N entries, never none.
C3_NoCredentialGivesPlaceholders ==
    (pc = "resolver_done" /\ ~Configured) =>
        /\ images = SubSeq(ThreePlaceholders, 1, per_page)
        /\ Len(images) = per_page
        /\ images # <<>>
        /\ ~raised

\* the default key and the empty query, N = 2
C3_Witness ==
    /\ pc = "resolver_done"
    /\ apiKey = "YOUR_PEXELS_API_KEY_HERE"
    /\ query = <<>>
    /\ per_page = 2
    /\ images = <<ThreePlaceholders[1], ThreePlaceholders[2]>>

\* C4: on a success status with a well-formed payload, search_images returns
\* one ImageRef per photo, in payload order, with the photo's medium-resolution
\* URL and its caption, or the query when it has none; a 2-photo payload with
\* N = 3 gives exactly 2 entries.
C4_SuccessMapsEveryPhoto ==
    (pc = "resolver_done" /\ Configured /\ response.status = 200
        /\ WellFormedPayload) =>
        /\ Len(images) = Len(response.photos)
        /\ \A k \in 1..Len(images) :
               /\ images[k].url = response.photos[k].medium
               /\ images[k].alt = (IF response.photos[k].hasAlt
                                   THEN response.photos[k].alt
                                   ELSE query)
        /\ ~raised

\* a payload of 2 different photos, the second without a caption, for N = 3
C4_Witness ==
    /\ pc = "resolver_done"
    /\ Configured
    /\ per_page = 3
    /\ query = <<"o","c","e","a","n">>
    /\ response.status = 200
    /\ WellFormedPayload
    /\ Len(response.photos) = 2
    /\ response.photos[1].hasAlt
    /\ ~response.photos[2].hasAlt
    /\ Len(images) = 2
    /\ images[2].alt = <<"o","c","e","a","n">>
    /\ images[1].url # images[2].url

(***************************************************************************)
(* generate_video (Spec).                                                  *)
(***************************************************************************)
\* the scenes of each input text: its trimmed fragments longer than 10
ScenesOf ==
    [t \in VideoTexts |-> SelectSeq(TrimmedFragments(t), LAMBDA f : Len(f) > 10)]

ScenesOfText ==
    ScenesOf[text]

\* what the resolver can be answered during a run, or nothing when it sends
\* no request
RunAnswers ==
    ServiceResponses(MaxRunPhotos) \cup {NoResponse}

\* C7: a run of generate_video that completes has produced one SceneResult per
\* scene of process_text, in order, with the scene's text, the keywords
\* extract_keywords gives for it, the images the resolver returns for these
\* keywords and N, and the configured duration; without a credential and with
\* N = 3, the two-sentence example gives 2 scenes with the 3 placeholders and
\* the keywords "brave astronaut found" and "pulsed softly dark".
C7_OneSceneResultPerScene ==
    pc = "complete" =>
        /\ LET scenes == ScenesOfText
           IN  /\ Len(video_data) = Len(scenes)
               /\ \A k \in 1..Len(video_data) :
                      LET kws == extract_keywords(scenes[k])
                      IN  /\ video_data[k].text = scenes[k]
                          /\ video_data[k].keywords = kws
                          /\ video_data[k].duration = duration
                          /\ \E resp \in RunAnswers :
                                 video_data[k].images =
                                     search_images(apiKey, kws, per_page, resp).images
        /\ (text = ExampleText /\ ~Configured /\ per_page = 3) =>
               /\ Len(video_data) = 2
               /\ video_data[1].keywords =
                      <<"b","r","a","v","e"," ","a","s","t","r","o","n","a","u","t",
                        " ","f","o","u","n","d">>
               /\ video_data[2].keywords =
                      <<"p","u","l","s","e","d"," ","s","o","f","t","l","y"," ",
                        "d","a","r","k">>
               /\ video_data[1].images = ThreePlaceholders
               /\ video_data[2].images = ThreePlaceholders

\* the example text, no credential, N = 3, run to completion
C7_Witness ==
    /\ pc = "complete"
    /\ text = ExampleText
    /\ apiKey = ""
    /\ per_page = 3
    /\ Len(video_data) = 2
    /\ video_data[1].text # video_data[2].text

\* C8: when the text has no scene (it is empty, or no fragment is longer than
\* 10 characters), process_text returns the empty sequence and generate_video
\* stops there: no request, no SceneResult, no preview, no completion.
C8_NoSceneStopsTheRun ==
    (pc \notin {"main", "warned", "start"} /\ ScenesOfText = <<>>) =>
        /\ pc = "nothing"
        /\ segments = <<>>
        /\ video_data = <<>>
        /\ requests = <<>>

\* a text of 50 characters or more whose fragments have 10 characters or fewer
C8_Witness ==
    /\ pc = "nothing"
    /\ Len(text) >= 50
    /\ \E k \in 1..Len(TrimmedFragments(text)) : Len(TrimmedFragments(text)[k]) = 10
    /\ video_data = <<>>

\* C10: every call of search_images issues no request without a credential and
\* exactly one with it, failed or not; a run of generate_video has issued, after
\* j scenes, j requests in scene order (none without a credential), never more
\* than the number of scenes.
C10_OneRequestPerScene ==
    /\ Len(requests) = (IF Configured THEN Len(video_data) ELSE 0)
    /\ Len(requests) <= Len(segments)
    /\ \A j \in 1..Len(requests) :
           /\ requests[j].query = segments[j].keywords
           /\ requests[j].per_page = per_page

\* a completed run over 2 scenes with a credential, the first request having
\* failed into the fallback
C10_Witness ==
    /\ pc = "complete"
    /\ Configured
    /\ Len(segments) = 2
    /\ Len(requests) = 2
    /\ video_data[1].images = SubSeq(ThreePlaceholders, 1, per_page)
    /\ requests[1].query # requests[2].query

(***************************************************************************)
(* generate_script (SpecScript).                                           *)
(***************************************************************************)
\* the number a sequence of decimal digits stands for
RECURSIVE ParseDecimal(_)
ParseDecimal(ds) ==
    IF ds = <<>> THEN 0
    ELSE 10 * ParseDecimal(SubSeq(ds, 1, Len(ds) - 1))
         + (CHOOSE d \in 0..9 : DigitChars[d + 1] = ds[Len(ds)])

RECURSIVE SumOfDurations(_)
SumOfDurations(data) ==
    IF data = <<>> THEN 0 ELSE data[1].duration + SumOfDurations(Tail(data))

LinesLabelled(label) ==
    SelectSeq(script, LAMBDA l : l.label = label)

\* C9: the document of generate_script states, once each, a total duration
\* equal to the sum of the scenes' durations and a scene count equal to the
\* number of scene blocks; there is one block per scene, numbered from 1, in
\* scene order.
C9_ScriptTotalsMatchScenes ==
    pc = "script_done" =>
        /\ Len(LinesLabelled("TOTAL VIDEO DURATION")) = 1
        /\ ParseDecimal(LinesLabelled("TOTAL VIDEO DURATION")[1].num)
               = SumOfDurations(video_data)
        /\ Len(LinesLabelled("TOTAL SCENES")) = 1
        /\ ParseDecimal(LinesLabelled("TOTAL SCENES")[1].num)
               = Len(LinesLabelled("SCENE"))
        /\ Len(LinesLabelled("SCENE")) = Len(video_data)
        /\ Len(LinesLabelled("Duration")) = Len(video_data)
        /\ Len(LinesLabelled("Narration")) = Len(video_data)
        /\ \A k \in 1..Len(video_data) :
               /\ ParseDecimal(LinesLabelled("SCENE")[k].num) = k
               /\ ParseDecimal(LinesLabelled("Duration")[k].num)
                      = video_data[k].duration
               /\ LinesLabelled("Narration")[k].value = video_data[k].text

\* three scenes of different durations, 16 seconds in all
C9_Witness ==
    /\ pc = "script_done"
    /\ Len(video_data) = 3
    /\ video_data[1].duration = 2
    /\ video_data[2].duration = 4
    /\ video_data[3].duration = 10
    /\ LinesLabelled("TOTAL VIDEO DURATION")[1].num = <<"1","6">>

====
